---- MODULE Spec2Model ----
(***************************************************************************)
(* Model of python/paddle/distributed/auto_parallel/hepler.py:             *)
(* ProxyLayer, BuildInfo and ProgramHelper.  One ProgramHelper object is   *)
(* driven by an arbitrary, bounded sequence of calls of its public         *)
(* operations.  `history` records every call with its argument and         *)
(* outcome, `to_static_calls` records the calls made to paddle.jit's       *)
(* to_static.                                                              *)
(***************************************************************************)
EXTENDS Integers, Sequences, FiniteSets, TLC

\* Longest sequence of calls explored.
MaxOps == 4

\* Python's None, as a mode value.
None == "None"

\* The list literal of build_program's and static_func's assertions.
ValidModes == {"train", "eval", "predict"}

\* Arguments tried for build_program(mode) and set_mode(mode).
ModeInputs == ValidModes \cup {None, "test"}

\* '_' + mode
FuncName(m) == "_" \o m

FuncNames == {FuncName(m) : m \in ValidModes}

\* ProxyLayer's bound methods _train, _eval, _predict as defined in the class.
OriginalFunc(name) ==
    [static |-> FALSE, input_spec |-> <<>>, build |-> 0, name |-> name]

\* to_static(function, input_spec=...): a new StaticFunction object over the
\* given function; `build` is the identity of the new object (the ordinal
\* of the to_static call that made it).
to_static(f, spec, id) ==
    [static |-> TRUE, input_spec |-> spec, build |-> id, name |-> f.name]

\* BuildInfo.__init__(mode=None, state=False)
BuildInfo == [mode |-> None, state |-> FALSE]

\* BuildInfo.has_cache
has_cache(info, m) == info.mode = m /\ info.state = TRUE

\* The assertion of build_program.
build_program_assert(m) == m \in ValidModes

\* static_func's assertion with 'predict' missing from its list.
static_func_assert_short(m) == m \in {"train", "eval"}

\* The assertion of static_func.
static_func_assert(m) == m \in ValidModes

\* The value static_func returns when its assertion holds.
static_func_ret(m, fs) == fs[FuncName(m)]

\* input_spec without the distinction of 'predict'.
InputSpec_always_labels(m) == <<"inputs_spec", "labels_spec">>

\* input_spec of build_program
InputSpec(m) ==
    IF m # "predict" THEN <<"inputs_spec", "labels_spec">>
                     ELSE <<"inputs_spec">>

\* The generated program vars a traced function stores on the proxy layer:
\* _train and _eval take (inputs, labels) and store all five, _predict
\* takes (inputs) and stores input_vars and output_vars only.
Trace(pv, f) ==
    IF f.name = "_predict"
    THEN [pv EXCEPT !.input_vars = f.input_spec[1],
                    !.output_vars = f.name]
    ELSE [pv EXCEPT !.input_vars = f.input_spec[1],
                    !.label_vars = f.input_spec[2],
                    !.output_vars = f.name,
                    !.loss_vars = f.name,
                    !.metric_vars = f.name]

VARIABLES
    mode,             \* proxy_layer.mode
    training,         \* proxy_layer.training
    funcs,            \* proxy_layer._train / _eval / _predict
    program_vars,     \* proxy_layer.input_vars ... metric_vars
    build_info,       \* ProgramHelper.build_info
    to_static_calls,  \* calls made to to_static, in order
    history           \* calls made to the helper, with their outcome

vars == <<mode, training, funcs, program_vars, build_info,
          to_static_calls, history>>

Call(op, arg, outcome) == [op |-> op, arg |-> arg, outcome |-> outcome]

Last(s) == s[Len(s)]

\* ProgramHelper.__init__ with ProxyLayer.__init__
Init ==
    /\ mode = None
    /\ training = TRUE
    /\ funcs = [n \in FuncNames |-> OriginalFunc(n)]
    /\ program_vars = [input_vars |-> "[]", label_vars |-> "[]",
                       output_vars |-> "[]", loss_vars |-> "[]",
                       metric_vars |-> "[]"]
    /\ build_info = BuildInfo
    /\ to_static_calls = <<>>
    /\ history = <<>>

\* ProxyLayer.set_mode
set_mode(m) ==
    /\ Len(history) < MaxOps
    /\ mode' = m
    /\ training' = (m = "train")
    /\ history' = Append(history, Call("set_mode", m, "ok"))
    /\ UNCHANGED <<funcs, program_vars, build_info, to_static_calls>>

\* build_program with the assertion placed after the assignment of
\* proxy_layer.mode.
build_program_raise_late(m) ==
    /\ mode' = m
    /\ history' = Append(history, Call("build_program", m, "AssertionError"))
    /\ UNCHANGED <<training, funcs, program_vars, build_info,
                   to_static_calls>>

\* build_program, line 170: the assertion on `mode` fails.
build_program_raise(m) ==
    /\ history' = Append(history, Call("build_program", m, "AssertionError"))
    /\ UNCHANGED <<mode, training, funcs, program_vars, build_info,
                   to_static_calls>>

\* build_program, lines 172-176: the cache hit, an early return.
build_program_cached(m) ==
    /\ history' = Append(history, Call("build_program", m, "cached"))
    /\ UNCHANGED <<mode, training, funcs, program_vars, build_info,
                   to_static_calls>>

\* build_program's build without the assignment of proxy_layer.mode.
build_program_build_keep_mode(m) ==
    LET input_spec == InputSpec(m)
        target == static_func_ret(m, funcs)
        wrapped == to_static(target, input_spec, Len(to_static_calls) + 1)
    IN  /\ to_static_calls' =
               Append(to_static_calls,
                      [func |-> target, input_spec |-> input_spec])
        /\ funcs' = [funcs EXCEPT ![FuncName(m)] = wrapped]
        /\ program_vars' = Trace(program_vars, wrapped)
        /\ history' = Append(history, Call("build_program", m, "built"))
        /\ UNCHANGED <<mode, training, build_info>>

\* build_program, lines 178-189: set the mode, wrap the mode's function
\* with to_static, store it under '_' + mode and trigger the trace.
build_program_build(m) ==
    /\ mode' = m
    /\ IF ~static_func_assert(m)
       THEN /\ history' = Append(history,
                                 Call("build_program", m, "AssertionError"))
            /\ UNCHANGED <<training, funcs, program_vars, build_info,
                           to_static_calls>>
       ELSE LET input_spec == InputSpec(m)
                target == static_func_ret(m, funcs)
                wrapped == to_static(target, input_spec,
                                     Len(to_static_calls) + 1)
            IN  /\ to_static_calls' =
                       Append(to_static_calls,
                              [func |-> target, input_spec |-> input_spec])
                /\ funcs' = [funcs EXCEPT ![FuncName(m)] = wrapped]
                /\ program_vars' = Trace(program_vars, wrapped)
                /\ history' = Append(history,
                                     Call("build_program", m, "built"))
                /\ UNCHANGED <<training, build_info>>

\* ProgramHelper.build_program
build_program(m) ==
    /\ Len(history) < MaxOps
    /\ IF ~build_program_assert(m) THEN build_program_raise(m)
       ELSE IF has_cache(build_info, m) THEN build_program_cached(m)
       ELSE build_program_build(m)

\* ProgramHelper.static_func
static_func ==
    /\ Len(history) < MaxOps
    /\ history' = Append(history,
          Call("static_func", "-",
               IF static_func_assert(mode) THEN "ok" ELSE "AssertionError"))
    /\ UNCHANGED <<mode, training, funcs, program_vars, build_info,
                   to_static_calls>>

\* The properties concrete_program, main_program and startup_program: each
\* is static_func().concrete_program, followed by an attribute read.
Accessors == {"concrete_program", "main_program", "startup_program"}

accessor(a) ==
    /\ Len(history) < MaxOps
    /\ history' = Append(history,
          Call(a, "-",
               IF ~static_func_assert(mode) THEN "AssertionError"
               ELSE IF static_func_ret(mode, funcs).static THEN "ok"
               ELSE "AttributeError"))
    /\ UNCHANGED <<mode, training, funcs, program_vars, build_info,
                   to_static_calls>>

Next ==
    \/ \E m \in ModeInputs : set_mode(m)
    \/ \E m \in ModeInputs : build_program(m)
    \/ static_func
    \/ \E a \in Accessors : accessor(a)

Spec == Init /\ [][Next]_vars

TypeOK ==
    /\ mode \in ModeInputs
    /\ training \in BOOLEAN
    /\ DOMAIN funcs = FuncNames
    /\ Len(history) <= MaxOps
    /\ Len(to_static_calls) <= Len(history)

----------------------------------------------------------------------------
\* Observations on the recorded calls.

\* This step is one call of the helper; its record is Last(history').
IsCall == Len(history') = Len(history) + 1

Builds(h) == {i \in 1..Len(h) : h[i].op = "build_program"
                                 /\ h[i].outcome = "built"}

Max(S) == CHOOSE x \in S : \A y \in S : y <= x

\* Every recorded call is a build_program call that did not raise.
OnlySuccessfulBuilds(h) ==
    \A i \in 1..Len(h) : /\ h[i].op = "build_program"
                         /\ h[i].outcome \in {"built", "cached"}

----------------------------------------------------------------------------
\* C1: once build_program(m) has built, an immediately following
\* build_program(m) is a cache hit: it returns early, makes no to_static
\* call and leaves the proxy layer's functions as they are.
C1_RebuildIsCacheHit ==
    [][(/\ history # <<>>
        /\ Last(history).op = "build_program"
        /\ Last(history).outcome = "built"
        /\ IsCall
        /\ Last(history').op = "build_program"
        /\ Last(history').arg = Last(history).arg)
       => (/\ Last(history').outcome = "cached"
           /\ to_static_calls' = to_static_calls
           /\ funcs' = funcs)]_vars

\* C2: build_program with a mode outside 'train', 'eval', 'predict' raises
\* the assertion error and leaves proxy_layer.mode, build_info and the
\* proxy layer's functions as they were, after any prior calls.
C2_InvalidModeRaisesFirst ==
    [][(/\ IsCall
        /\ Last(history').op = "build_program"
        /\ Last(history').arg \notin {"train", "eval", "predict"})
       => (/\ Last(history').outcome = "AssertionError"
           /\ mode' = mode
           /\ build_info' = build_info
           /\ funcs' = funcs)]_vars

\* C2's case: a failed build_program after a build has changed the mode.
C2_Witness ==
    /\ Len(history) >= 2
    /\ Last(history).op = "build_program"
    /\ Last(history).arg \notin ValidModes
    /\ Last(history).outcome = "AssertionError"
    /\ mode \in ValidModes
    /\ to_static_calls # <<>>

\* C3: a build for another mode keeps the cache of a mode built before: in
\* build_program(m1), build_program(m2), build_program(m1) with m1 # m2 the
\* third call is a cache hit that does not rebuild.
C3_CachePerModeIndependent ==
    [][(/\ Len(history) >= 2
        /\ history[Len(history) - 1].op = "build_program"
        /\ history[Len(history) - 1].outcome \in {"built", "cached"}
        /\ Last(history).op = "build_program"
        /\ Last(history).outcome \in {"built", "cached"}
        /\ Last(history).arg # history[Len(history) - 1].arg
        /\ IsCall
        /\ Last(history').op = "build_program"
        /\ Last(history').arg = history[Len(history) - 1].arg)
       => (/\ Last(history').outcome = "cached"
           /\ to_static_calls' = to_static_calls)]_vars

\* C4: while no build_program or set_mode call has succeeded the mode is
\* None; static_func and the accessors concrete_program, main_program and
\* startup_program raise the assertion error when the mode is None, never
\* raise it when the mode is 'train', 'eval' or 'predict', and change no
\* state.
C4_StaticFuncAssertion ==
    /\ []((\A i \in 1..Len(history) :
              \/ history[i].op \notin {"build_program", "set_mode"}
              \/ history[i].outcome = "AssertionError")
          => mode = None)
    /\ [][(/\ IsCall
           /\ Last(history').op \in {"static_func"} \cup Accessors)
          => (/\ mode = None => Last(history').outcome = "AssertionError"
              /\ mode \in {"train", "eval", "predict"}
                    => Last(history').outcome # "AssertionError"
              /\ UNCHANGED <<mode, training, funcs, program_vars,
                             build_info, to_static_calls>>)]_vars

\* C4's case: static_func raised on the fresh helper, and an accessor
\* passed the assertion later, with the mode 'predict'.
C4_Witness ==
    /\ Len(history) >= 3
    /\ history[1].op = "static_func"
    /\ history[1].outcome = "AssertionError"
    /\ Last(history).op \in Accessors
    /\ Last(history).outcome = "ok"
    /\ mode = "predict"

\* C5: after build_program calls that all succeeded, proxy_layer.mode is
\* the mode of the latest call that built, static_func returns the function
\* stored under '_' + that mode, and that function is the StaticFunction
\* the latest to_static call made over that mode's function; a build for
\* mode m replaces the attribute '_' + m and no other.
C5_LatestBuildIsCurrent ==
    /\ []((history # <<>> /\ OnlySuccessfulBuilds(history)
           /\ Builds(history) # {})
          => LET m == history[Max(Builds(history))].arg
                 f == static_func_ret(mode, funcs)
             IN  /\ mode = m
                 /\ static_func_assert(mode)
                 /\ f = funcs["_" \o m]
                 /\ f.static
                 /\ f.name = "_" \o m
                 /\ f.build = Len(to_static_calls)
                 /\ f.build = Cardinality(Builds(history)))
    /\ [][(/\ IsCall
           /\ Last(history').op = "build_program"
           /\ Last(history').outcome = "built")
          => LET m == Last(history').arg
             IN  /\ funcs'["_" \o m] # funcs["_" \o m]
                 /\ \A n \in FuncNames \ {"_" \o m} : funcs'[n] = funcs[n]
         ]_vars

\* C5's case: three builds in a row, the last for a mode other than the
\* one before it.
C5_Witness ==
    /\ Len(history) >= 3
    /\ OnlySuccessfulBuilds(history)
    /\ Cardinality(Builds(history)) >= 3
    /\ Last(history).arg # history[Len(history) - 1].arg
    /\ mode = Last(history).arg

\* C6: a build passes [inputs_spec, labels_spec] to to_static for 'train'
\* and for 'eval' and [inputs_spec] for 'predict'; labels_spec is never
\* passed for 'predict'.
C6_InputSpecPerMode ==
    /\ [](\A i \in 1..Len(to_static_calls) :
            LET c == to_static_calls[i]
            IN  IF c.func.name = "_predict"
                THEN c.input_spec = <<"inputs_spec">>
                ELSE c.input_spec = <<"inputs_spec", "labels_spec">>)
    /\ [][(/\ IsCall
           /\ Last(history').op = "build_program"
           /\ Last(history').outcome = "built")
          => (/\ Len(to_static_calls') = Len(to_static_calls) + 1
              /\ Last(to_static_calls').input_spec =
                   CASE Last(history').arg = "train"
                          -> <<"inputs_spec", "labels_spec">>
                     [] Last(history').arg = "eval"
                          -> <<"inputs_spec", "labels_spec">>
                     [] Last(history').arg = "predict"
                          -> <<"inputs_spec">>)]_vars

\* C6's case: 'eval' and 'predict' have both been built.
C6_Witness ==
    /\ \E i \in Builds(history) : history[i].arg = "predict"
    /\ \E i \in Builds(history) : history[i].arg = "eval"
    /\ Len(to_static_calls) >= 2
====
